---- MODULE Spec2Model ----
(***************************************************************************)
(* merge-to-md.js: merge files and folders into one Markdown document      *)
(* with a File Index of line ranges.                                        *)
(*                                                                         *)
(* A string is a sequence of one-character strings, so that split, trim,   *)
(* the glob-to-regex conversion and the line counting are computed on the  *)
(* characters, as the script computes them.                                *)
(***************************************************************************)
EXTENDS Integers, Sequences, FiniteSets, TLC

VARIABLES
  argv,          \* process.argv.slice(2)
  files,         \* the working directory: relative path of a regular file |-> its text
  gitEntries,    \* the entries git status has to report
  gitOut,        \* what `git status --porcelain` prints
  pc,            \* main()'s position
  opts,          \* parseArgs()'s result
  collected,     \* the candidate paths (collectPaths or getGitChangedFiles)
  filePaths,     \* main()'s filePaths
  entries,       \* the index rows { relPath, startLine, endLine }
  blocks,        \* the rendered fenced blocks
  output,        \* the document text
  exitCode,      \* the process's exit code, -1 while running
  outDirCreated, \* mkdirSync(outDir) has run
  outFile        \* the file written: [name, text], or NoFile

vars == <<argv, files, gitEntries, gitOut, pc, opts, collected, filePaths,
          entries, blocks, output, exitCode, outDirCreated, outFile>>

(***************************************************************************)
(* Strings                                                                 *)
(***************************************************************************)

Range(s) == {s[i] : i \in 1..Len(s)}

SetMin(S) == CHOOSE x \in S : \A y \in S : x <= y

SetMax(S) == CHOOSE x \in S : \A y \in S : x >= y

\* Tab, newline and the printable ASCII characters in UTF-16 code unit
\* order; "backtick" stands
\* for the character U+0060, which a TLA+ string cannot hold.
CodeUnitOrder ==
  <<
    "\t", "\n", " ", "!", "\"", "#", "$", "%", "&", "'", "(", ")",
    "*", "+", ",", "-", ".", "/", "0", "1", "2", "3", "4", "5",
    "6", "7", "8", "9", ":", ";", "<", "=", ">", "?", "@", "A",
    "B", "C", "D", "E", "F", "G", "H", "I", "J", "K", "L", "M",
    "N", "O", "P", "Q", "R", "S", "T", "U", "V", "W", "X", "Y",
    "Z", "[", "\\", "]", "^", "_", "backtick", "a", "b", "c", "d", "e",
    "f", "g", "h", "i", "j", "k", "l", "m", "n", "o", "p", "q",
    "r", "s", "t", "u", "v", "w", "x", "y", "z", "{", "|", "}",
    "~" >>

Code(c) == CHOOSE i \in 1..Len(CodeUnitOrder) : CodeUnitOrder[i] = c

\* a < b for strings: the comparison Array.prototype.sort() uses by default.
StrLess(a, b) ==
  \E k \in 1..(Len(b)) :
     /\ k <= Len(a) + 1
     /\ \A i \in 1..(k - 1) : a[i] = b[i]
     /\ (k = Len(a) + 1 \/ Code(a[k]) < Code(b[k]))

StartsWith(s, p) == Len(p) <= Len(s) /\ SubSeq(s, 1, Len(p)) = p

EndsWith(s, p) == Len(p) <= Len(s) /\ SubSeq(s, Len(s) - Len(p) + 1, Len(s)) = p

\* The first index at or after `from` where `sub` occurs in s, or 0.
IndexOf(s, sub, from) ==
  LET hits == {i \in from..(Len(s) - Len(sub) + 1) : SubSeq(s, i, i + Len(sub) - 1) = sub}
  IN IF hits = {} THEN 0 ELSE SetMin(hits)

Includes(s, sub) == IndexOf(s, sub, 1) # 0

RECURSIVE SplitOn(_, _)
\* String.prototype.split on a separator of one character out of `seps`.
SplitOn(s, seps) ==
  LET hits == {i \in 1..Len(s) : s[i] \in seps}
  IN IF hits = {} THEN <<s>>
     ELSE LET k == SetMin(hits)
          IN <<SubSeq(s, 1, k - 1)>> \o SplitOn(SubSeq(s, k + 1, Len(s)), seps)

RECURSIVE SplitStr(_, _)
\* String.prototype.split on a separator string.
SplitStr(s, sep) ==
  LET k == IndexOf(s, sep, 1)
  IN IF k = 0 THEN <<s>>
     ELSE <<SubSeq(s, 1, k - 1)>> \o SplitStr(SubSeq(s, k + Len(sep), Len(s)), sep)

RECURSIVE Join(_, _)
\* Array.prototype.join.
Join(parts, sep) ==
  IF Len(parts) = 0 THEN <<>>
  ELSE IF Len(parts) = 1 THEN parts[1]
  ELSE parts[1] \o sep \o Join(Tail(parts), sep)

WhiteSpace == {" ", "\t", "\n"}

\* String.prototype.trim.
Trim(s) ==
  LET keep == {i \in 1..Len(s) : s[i] \notin WhiteSpace}
  IN IF keep = {} THEN <<>> ELSE SubSeq(s, SetMin(keep), SetMax(keep))

\* Array.prototype.filter(Boolean) on strings: the non-empty ones.
NonEmpty(parts) == SelectSeq(parts, LAMBDA x : Len(x) > 0)

\* s.slice(k) with a 0-based k.
SliceFrom(s, k) == SubSeq(s, k + 1, Len(s))

\* path.basename of a relative path.
Basename(p) ==
  LET segs == NonEmpty(SplitOn(p, {"/"}))
  IN IF Len(segs) = 0 THEN <<>> ELSE segs[Len(segs)]

\* path.extname: from the last "." of the basename, unless that is its first
\* character or there is none.
ExtName(p) ==
  LET b == Basename(p)
      dots == {i \in 2..Len(b) : b[i] = "."}
  IN IF dots = {} \/ b = <<".",".">> THEN <<>> ELSE SubSeq(b, SetMax(dots), Len(b))

\* path.relative(cwd, path.resolve(cwd, arg)) for an argument that stays
\* inside cwd: "." and empty segments dropped.
Normalize(arg) ==
  Join(SelectSeq(SplitOn(arg, {"/"}), LAMBDA x : Len(x) > 0 /\ x # <<".">>), <<"/">>)

(***************************************************************************)
(* Default exclusion and the glob matcher                                  *)
(***************************************************************************)

DEFAULT_EXCLUDE_SEGMENTS ==
  { <<".","g","i","t">>, <<"n","o","d","e","_","m","o","d","u","l","e","s">>, <<"t","e","m","p">>, <<"t","m","p">>, <<".","t","m","p">>, <<".","t","e","m","p">>,
    <<"v","e","n","d","o","r">>, <<".","v","e","n","v">>, <<".","t","u","r","b","o">>, <<"d","i","s","t">>, <<"_","_","p","y","c","a","c","h","e","_","_">> }

isDefaultExcluded(relPath) ==
  LET segments == NonEmpty(SplitOn(relPath, {"/", "\\"}))
  IN \E i \in 1..Len(segments) : segments[i] \in DEFAULT_EXCLUDE_SEGMENTS

RECURSIVE GlobTokens(_)
\* The regex the pattern becomes, as tokens: "**" |-> ".*" (GLOBSTAR), a
\* remaining "*" |-> "[^/]*" (STAR), anything else the character itself:
\* a character of the patterns here is either escaped by the first
\* replace() or a letter, "/", "-", "," or " ", which a regex takes
\* literally.
GlobTokens(p) ==
  IF Len(p) = 0 THEN <<>>
  ELSE IF Len(p) >= 2 /\ p[1] = "*" /\ p[2] = "*"
       THEN <<"GLOBSTAR">> \o GlobTokens(SubSeq(p, 3, Len(p)))
  ELSE IF p[1] = "*" THEN <<"STAR">> \o GlobTokens(Tail(p))
  ELSE <<p[1]>> \o GlobTokens(Tail(p))

RECURSIVE RegexTest(_, _, _, _)
\* new RegExp("^" + reStr + "$").test(s), from token i and character j on.
RegexTest(toks, i, s, j) ==
  IF i > Len(toks) THEN j > Len(s)
  ELSE IF toks[i] = "GLOBSTAR"
       THEN RegexTest(toks, i + 1, s, j)
            \/ (j <= Len(s) /\ s[j] # "\n" /\ RegexTest(toks, i, s, j + 1))
  ELSE IF toks[i] = "STAR"
       THEN RegexTest(toks, i + 1, s, j)
            \/ (j <= Len(s) /\ s[j] # "/" /\ RegexTest(toks, i, s, j + 1))
  ELSE j <= Len(s) /\ s[j] = toks[i] /\ RegexTest(toks, i + 1, s, j + 1)

matchesGlob(relPath, pattern) ==
  LET p == Trim(pattern)
  IN IF Len(p) = 0 THEN FALSE
     ELSE IF "*" \notin Range(p)
          THEN \/ relPath = p
               \/ EndsWith(relPath, <<"/">> \o p)
               \/ Basename(relPath) = p
     ELSE RegexTest(GlobTokens(p), 1, relPath, 1)

isExcluded(relPath, patterns) ==
  IF Len(patterns) = 0 THEN FALSE
  ELSE \E i \in 1..Len(patterns) : matchesGlob(relPath, patterns[i])

isIncluded(relPath, patterns) ==
  IF Len(patterns) = 0 THEN TRUE
  ELSE \E i \in 1..Len(patterns) : matchesGlob(relPath, patterns[i])

(***************************************************************************)
(* The working directory                                                   *)
(***************************************************************************)

\* fs is the set of relative paths of the regular files; a directory is a
\* proper ancestor of one of them, and <<>> is the working directory itself.
isFile(fs, p) == p \in fs

isDirectory(fs, p) ==
  Len(p) = 0 \/ \E f \in fs : StartsWith(f, p \o <<"/">>)

existsSync(fs, p) == isFile(fs, p) \/ isDirectory(fs, p)

\* path.join of two relative paths, either possibly empty.
PathJoin(a, b) ==
  IF Len(a) = 0 THEN b ELSE IF Len(b) = 0 THEN a ELSE a \o <<"/">> \o b

RECURSIVE Dedup(_)
Dedup(s) ==
  IF Len(s) = 0 THEN <<>>
  ELSE LET front == Dedup(SubSeq(s, 1, Len(s) - 1))
           x == s[Len(s)]
       IN IF x \in Range(front) THEN front ELSE Append(front, x)

\* readdirSync(dirPath): the names of the entries of dirPath, in the order
\* the platform lists them (order: every file of the working directory, in
\* that order).
readdirSync(order, dirPath) ==
  LET prefix == IF Len(dirPath) = 0 THEN <<>> ELSE dirPath \o <<"/">>
      under == SelectSeq(order, LAMBDA f : StartsWith(f, prefix) /\ Len(f) > Len(prefix))
      name(f) == SplitOn(SubSeq(f, Len(prefix) + 1, Len(f)), {"/"})[1]
  IN Dedup([i \in 1..Len(under) |-> name(under[i])])

RECURSIVE listFilesRecursive(_, _, _)
RECURSIVE listEntriesFrom(_, _, _, _, _)

\* The for loop of listFilesRecursive, from entry k on.
listEntriesFrom(order, dir, base, ents, k) ==
  IF k > Len(ents) THEN <<>>
  ELSE LET rel == IF Len(base) > 0 THEN PathJoin(base, ents[k]) ELSE ents[k]
           here == IF isDirectory(Range(order), PathJoin(dir, rel))
                   THEN listFilesRecursive(order, dir, rel)
                   ELSE IF isFile(Range(order), PathJoin(dir, rel)) THEN <<rel>>
                   ELSE <<>>
       IN here \o listEntriesFrom(order, dir, base, ents, k + 1)

listFilesRecursive(order, dir, base) ==
  LET dirPath == PathJoin(dir, base)
  IN IF ~existsSync(Range(order), dirPath) \/ isFile(Range(order), dirPath)
     THEN <<>>
     ELSE listEntriesFrom(order, dir, base, readdirSync(order, dirPath), 1)

RECURSIVE SortStrings(_)
\* Array.prototype.sort() without a comparator: ascending by code units.
SortStrings(s) ==
  IF Len(s) = 0 THEN <<>>
  ELSE LET rest == SortStrings(Tail(s))
           x == s[1]
           before == SelectSeq(rest, LAMBDA y : StrLess(y, x))
           after == SelectSeq(rest, LAMBDA y : ~StrLess(y, x))
       IN before \o <<x>> \o after

RECURSIVE AppendUnseen(_, _, _)
\* The inner loop of collectPaths: push each of fs[k..] not seen yet.
AppendUnseen(acc, fs, k) ==
  IF k > Len(fs) THEN acc
  ELSE AppendUnseen(IF fs[k] \in Range(acc) THEN acc ELSE Append(acc, fs[k]), fs, k + 1)

RECURSIVE collectFrom(_, _, _, _)
\* The outer loop of collectPaths from argument k on; `acc` is `collected`,
\* and `seen` is its set of elements.
collectFrom(pathArgs, k, acc, order) ==
  IF k > Len(pathArgs) THEN acc
  ELSE LET resolved == Normalize(pathArgs[k])
           fs == Range(order)
           found == IF ~existsSync(fs, resolved) THEN <<>>
                    ELSE IF isFile(fs, resolved) THEN <<resolved>>
                    ELSE LET listed == listFilesRecursive(order, resolved, <<>>)
                         IN [i \in 1..Len(listed) |->
                               IF Len(resolved) > 0 THEN PathJoin(resolved, listed[i]) ELSE listed[i]]
       IN collectFrom(pathArgs, k + 1, AppendUnseen(acc, found, 1), order)

\* A variant without the `seen` set across arguments.
collectPathsNoDedup(pathArgs, order) ==
  LET RECURSIVE all(_)
      all(k) == IF k > Len(pathArgs) THEN <<>>
                ELSE collectFrom(<<pathArgs[k]>>, 1, <<>>, order) \o all(k + 1)
  IN SortStrings(all(1))

collectPaths(pathArgs, order) == SortStrings(collectFrom(pathArgs, 1, <<>>, order))

(***************************************************************************)
(* git status --porcelain                                                  *)
(***************************************************************************)

\* One entry of the status: XY, the path, and for a rename the old path
\* (<<>> otherwise). A line is "XY path" or "XY old -> path".
PorcelainLine(e) ==
  e.status \o <<" ">> \o
  (IF Len(e.orig) > 0 THEN e.orig \o <<" ","-",">"," ">> \o e.path ELSE e.path)

RECURSIVE PorcelainText(_)
\* What execSync returns: every line ended by a newline.
PorcelainText(es) ==
  IF Len(es) = 0 THEN <<>>
  ELSE PorcelainLine(es[1]) \o <<"\n">> \o PorcelainText(Tail(es))

\* line.slice(0, 2)
StatusOf(line) == SubSeq(line, 1, IF Len(line) < 2 THEN Len(line) ELSE 2)

\* A variant that tests the first status column only.
hasDeleteFlagFirstOnly(status) == Len(status) >= 1 /\ status[1] = "D"

\* status[0] === "D" || status[1] === "D"
hasDeleteFlag(status) ==
  \/ (Len(status) >= 1 /\ status[1] = "D")
  \/ (Len(status) >= 2 /\ status[2] = "D")

RECURSIVE gitPathsFrom(_, _)
\* The loop of getGitChangedFiles from line k on.
gitPathsFrom(lines, k) ==
  IF k > Len(lines) THEN <<>>
  ELSE LET line == lines[k]
           status == StatusOf(line)
           filePath == Trim(SliceFrom(line, 3))
           newPath == IF Includes(filePath, <<" ","-",">"," ">>)
                      THEN LET parts == SplitStr(filePath, <<" ","-",">"," ">>)
                           IN Trim(parts[Len(parts)])
                      ELSE filePath
           rest == gitPathsFrom(lines, k + 1)
       IN IF Len(Trim(line)) = 0 THEN rest
          ELSE IF hasDeleteFlag(status) THEN rest
          ELSE <<newPath>> \o rest

getGitChangedFiles(out) == gitPathsFrom(SplitOn(out, {"\n"}), 1)

(***************************************************************************)
(* parseArgs                                                               *)
(***************************************************************************)

\* outName is <<>> for null: main() tests it for truthiness, and parseArgs
\* never stores an empty string.
DefaultOpts ==
  [outDir |-> <<"t","e","m","p","/","l","l","m","-","c","o","n","t","e","x","t">>, outName |-> <<>>, exceptList |-> <<>>,
   includeList |-> <<>>, useGit |-> FALSE, pathArgs |-> <<>>]

\* value.split(",").map((p) => p.trim()).filter(Boolean)
PatternList(value) ==
  LET parts == SplitOn(value, {","})
  IN NonEmpty([i \in 1..Len(parts) |-> Trim(parts[i])])

RECURSIVE parseArgsFrom(_, _, _)
\* The loop of parseArgs from args[i] on (i from 1).
parseArgsFrom(args, i, acc) ==
  IF i > Len(args) THEN acc
  ELSE LET a == args[i]
           hasValue == i + 1 <= Len(args) /\ Len(args[i + 1]) > 0
       IN IF a = <<"-","-","o","u","t">> /\ hasValue
          THEN parseArgsFrom(args, i + 2, [acc EXCEPT !.outDir = args[i + 1]])
          ELSE IF a = <<"-","-","n","a","m","e">> /\ hasValue
          THEN parseArgsFrom(args, i + 2, [acc EXCEPT !.outName = args[i + 1]])
          ELSE IF a = <<"-","-","e","x","c","e","p","t">> /\ hasValue
          THEN parseArgsFrom(args, i + 2,
                 [acc EXCEPT !.exceptList = @ \o PatternList(args[i + 1])])
          ELSE IF a = <<"-","-","i","n","c","l","u","d","e">> /\ hasValue
          THEN parseArgsFrom(args, i + 2,
                 [acc EXCEPT !.includeList = @ \o PatternList(args[i + 1])])
          ELSE IF a = <<"-","-","g","i","t">>
          THEN parseArgsFrom(args, i + 1, [acc EXCEPT !.useGit = TRUE])
          ELSE IF ~StartsWith(a, <<"-","-">>)
          THEN parseArgsFrom(args, i + 1, [acc EXCEPT !.pathArgs = Append(@, a)])
          ELSE parseArgsFrom(args, i + 1, acc)

parseArgs(args) == parseArgsFrom(args, 1, DefaultOpts)

(***************************************************************************)
(* The filter pipeline                                                     *)
(***************************************************************************)

\* A variant in which a match of an --include pattern overrides the default
\* exclusion.
FilterPathsIncludeFirst(paths, includeList, exceptList, fs) ==
  LET a == SelectSeq(paths, LAMBDA rel :
             ~isDefaultExcluded(rel) \/ (Len(includeList) > 0 /\ isIncluded(rel, includeList)))
      b == SelectSeq(a, LAMBDA rel : isIncluded(rel, includeList))
      c == SelectSeq(b, LAMBDA rel : ~isExcluded(rel, exceptList))
  IN SelectSeq(c, LAMBDA rel : isFile(fs, Normalize(rel)))

\* A variant in which a match of an --include pattern overrides --except.
FilterPathsIncludeWins(paths, includeList, exceptList, fs) ==
  LET a == SelectSeq(paths, LAMBDA rel : ~isDefaultExcluded(rel))
      b == SelectSeq(a, LAMBDA rel : isIncluded(rel, includeList))
      c == SelectSeq(b, LAMBDA rel :
             ~isExcluded(rel, exceptList) \/ (Len(includeList) > 0 /\ isIncluded(rel, includeList)))
  IN SelectSeq(c, LAMBDA rel : isFile(fs, Normalize(rel)))

\* Default excludes, then include (if any), then except, then only the
\* paths that are regular files.
FilterPaths(paths, includeList, exceptList, fs) ==
  LET a == SelectSeq(paths, LAMBDA rel : ~isDefaultExcluded(rel))
      b == SelectSeq(a, LAMBDA rel : isIncluded(rel, includeList))
      c == SelectSeq(b, LAMBDA rel : ~isExcluded(rel, exceptList))
  IN SelectSeq(c, LAMBDA rel : isFile(fs, Normalize(rel)))

(***************************************************************************)
(* The document                                                            *)
(***************************************************************************)

EXT_TO_LANG(ext) ==
  CASE ext = <<".","t","s">> -> <<"t","y","p","e","s","c","r","i","p","t">>
    [] ext = <<".","t","s","x">> -> <<"t","s","x">>
    [] ext = <<".","j","s">> -> <<"j","a","v","a","s","c","r","i","p","t">>
    [] ext = <<".","j","s","x">> -> <<"j","s","x">>
    [] ext = <<".","m","j","s">> -> <<"j","a","v","a","s","c","r","i","p","t">>
    [] ext = <<".","c","j","s">> -> <<"j","a","v","a","s","c","r","i","p","t">>
    [] ext = <<".","m","d">> -> <<"m","a","r","k","d","o","w","n">>
    [] ext = <<".","m","d","x">> -> <<"m","d","x">>
    [] ext = <<".","j","s","o","n">> -> <<"j","s","o","n">>
    [] ext = <<".","c","s","s">> -> <<"c","s","s">>
    [] ext = <<".","s","c","s","s">> -> <<"s","c","s","s">>
    [] ext = <<".","h","t","m","l">> -> <<"h","t","m","l">>
    [] ext = <<".","s","q","l">> -> <<"s","q","l">>
    [] ext = <<".","p","y">> -> <<"p","y","t","h","o","n">>
    [] ext = <<".","s","h">> -> <<"s","h","e","l","l">>
    [] ext = <<".","y","a","m","l">> -> <<"y","a","m","l">>
    [] ext = <<".","y","m","l">> -> <<"y","a","m","l">>
    [] OTHER -> <<>>

Fence == <<"backtick","backtick","backtick">>

\* "```" + opening + "\n" + content + "\n```\n"
renderBlock(relPath, content) ==
  LET lang == EXT_TO_LANG(ExtName(relPath))
      opening == IF Len(lang) > 0 THEN lang \o <<" ">> \o relPath ELSE relPath
  IN Fence \o opening \o <<"\n">> \o content \o <<"\n">> \o Fence \o <<"\n">>

tocHeader == <<"#"," ","F","i","l","e"," ","I","n","d","e","x","\n","\n","|"," ","P","a","t","h"," ","|"," ","S","t","a","r","t"," ","|"," ","E","n","d"," ","|","\n","|","-","-","-","-","-","-","|","-","-","-","-","-","-","-","|","-","-","-","-","-","|">>

LineCount(text) == Len(SplitOn(text, {"\n"}))

\* A variant that leaves out the blank line between the index and the body.
tocLineCountNoBlank(n) == LineCount(tocHeader) + n

\* tocHeader.split(/\n/).length + blocks.length + 1
tocLineCount(n) == LineCount(tocHeader) + n + 1

\* A variant that stops counting at the closing fence.
blockLinesToFence(block) == LineCount(block) - 1

\* blocks[i].split(/\n/).length
blockLines(block) == LineCount(block)

RECURSIVE entriesFrom(_, _, _, _)
\* The loop that gives each block its line range, from block i on.
entriesFrom(paths, blks, i, currentLine) ==
  IF i > Len(blks) THEN <<>>
  ELSE LET n == blockLines(blks[i])
       IN <<[relPath |-> paths[i], startLine |-> currentLine,
             endLine |-> currentLine + n - 1]>>
          \o entriesFrom(paths, blks, i + 1, currentLine + n)

Digits == <<"0", "1", "2", "3", "4", "5", "6", "7", "8", "9">>

RECURSIVE ToDecimal(_)
\* A line number in a template literal.
ToDecimal(n) ==
  IF n < 10 THEN <<Digits[n + 1]>>
  ELSE Append(ToDecimal(n \div 10), Digits[(n % 10) + 1])

tocRow(e) ==
  <<"|"," ">> \o e.relPath \o <<" ","|"," ">> \o ToDecimal(e.startLine) \o <<" ","|"," ">>
  \o ToDecimal(e.endLine) \o <<" ","|">>

\* toc + "\n\n" + body
documentText(ents, blks) ==
  LET tocRows == Join([i \in 1..Len(ents) |-> tocRow(ents[i])], <<"\n">>)
      toc == tocHeader \o <<"\n">> \o tocRows
      body == Join(blks, <<"\n">>)
  IN toc \o <<"\n","\n">> \o body

(***************************************************************************)
(* The output name                                                         *)
(***************************************************************************)

\* first.replace(/\//g, "-")
SlashesToHyphens(s) == [i \in 1..Len(s) |-> IF s[i] = "/" THEN "-" ELSE s[i]]

\* .replace(/^-+|-+$/g, "")
TrimHyphens(s) ==
  LET keep == {i \in 1..Len(s) : s[i] # "-"}
  IN IF keep = {} THEN <<>> ELSE SubSeq(s, SetMin(keep), SetMax(keep))

\* A variant without the trimming of leading and trailing hyphens.
resolveNameNoTrim(o) ==
  IF Len(o.outName) > 0 THEN o.outName
  ELSE IF o.useGit THEN <<"g","i","t","-","c","h","a","n","g","e","d">>
  ELSE IF Len(o.pathArgs) = 1
       THEN LET derived == SlashesToHyphens(o.pathArgs[1])
            IN IF Len(derived) > 0 THEN derived ELSE <<"m","e","r","g","e","d">>
  ELSE <<"m","e","r","g","e","d">>

resolveName(o) ==
  IF Len(o.outName) > 0 THEN o.outName
  ELSE IF o.useGit THEN <<"g","i","t","-","c","h","a","n","g","e","d">>
  ELSE IF Len(o.pathArgs) = 1
       THEN LET derived == TrimHyphens(SlashesToHyphens(o.pathArgs[1]))
            IN IF Len(derived) > 0 THEN derived ELSE <<"m","e","r","g","e","d">>
  ELSE <<"m","e","r","g","e","d">>

(***************************************************************************)
(* main()                                                                  *)
(***************************************************************************)

NoFile == [dir |-> <<>>, name |-> <<>>, text |-> <<>>]

\* Every order readdirSync may list the files of the working directory in.
Orders(fs) ==
  {o \in [1..Cardinality(fs) -> fs] : \A i, j \in 1..Cardinality(fs) : o[i] = o[j] => i = j}

\* A variant that tests the list before the filters.
EmptyBeforeFiltering == Len(collected) = 0

\* filePaths.length === 0
EmptyAfterFiltering == Len(filePaths) = 0

ParseArgs ==
  /\ pc = "start"
  /\ opts' = parseArgs(argv)
  /\ pc' = "parsed"
  /\ UNCHANGED <<argv, files, gitEntries, gitOut, collected, filePaths, entries,
                 blocks, output, exitCode, outDirCreated, outFile>>

\* Neither --git nor a path: usage on stderr, process.exit(1).
Usage ==
  /\ pc = "parsed"
  /\ ~opts.useGit
  /\ Len(opts.pathArgs) = 0
  /\ exitCode' = 1
  /\ pc' = "done"
  /\ UNCHANGED <<argv, files, gitEntries, gitOut, opts, collected, filePaths,
                 entries, blocks, output, outDirCreated, outFile>>

GitChanged ==
  /\ pc = "parsed"
  /\ opts.useGit
  /\ collected' = getGitChangedFiles(gitOut)
  /\ pc' = "collected"
  /\ UNCHANGED <<argv, files, gitEntries, gitOut, opts, filePaths, entries,
                 blocks, output, exitCode, outDirCreated, outFile>>

Collect ==
  /\ pc = "parsed"
  /\ ~opts.useGit
  /\ Len(opts.pathArgs) > 0
  /\ \E order \in Orders(DOMAIN files) :
        collected' = collectPaths(opts.pathArgs, order)
  /\ pc' = "collected"
  /\ UNCHANGED <<argv, files, gitEntries, gitOut, opts, filePaths, entries,
                 blocks, output, exitCode, outDirCreated, outFile>>

Filter ==
  /\ pc = "collected"
  /\ filePaths' = FilterPaths(collected, opts.includeList, opts.exceptList, DOMAIN files)
  /\ pc' = "filtered"
  /\ UNCHANGED <<argv, files, gitEntries, gitOut, opts, collected, entries,
                 blocks, output, exitCode, outDirCreated, outFile>>

\* "No files to merge after filtering.", process.exit(0).
NothingToMerge ==
  /\ pc = "filtered"
  /\ EmptyAfterFiltering
  /\ exitCode' = 0
  /\ pc' = "done"
  /\ UNCHANGED <<argv, files, gitEntries, gitOut, opts, collected, filePaths,
                 entries, blocks, output, outDirCreated, outFile>>

\* Build blocks, compute the line ranges, build the document.
Assemble ==
  /\ pc = "filtered"
  /\ ~EmptyAfterFiltering
  /\ LET blks == [i \in 1..Len(filePaths) |->
                    renderBlock(filePaths[i], files[Normalize(filePaths[i])])]
         ents == entriesFrom(filePaths, blks, 1, tocLineCount(Len(blks)) + 1)
     IN /\ blocks' = blks
        /\ entries' = ents
        /\ output' = documentText(ents, blks)
  /\ pc' = "assembled"
  /\ UNCHANGED <<argv, files, gitEntries, gitOut, opts, collected, filePaths,
                 exitCode, outDirCreated, outFile>>

\* Resolve the name, mkdirSync(outDir), writeFileSync(outPath, output).
WriteOutput ==
  /\ pc = "assembled"
  /\ outDirCreated' = TRUE
  /\ outFile' = [dir |-> opts.outDir, name |-> resolveName(opts) \o <<".","m","d">>,
                 text |-> output]
  /\ exitCode' = 0
  /\ pc' = "done"
  /\ UNCHANGED <<argv, files, gitEntries, gitOut, opts, collected, filePaths,
                 entries, blocks, output>>

Next ==
  \/ ParseArgs
  \/ Usage
  \/ GitChanged
  \/ Collect
  \/ Filter
  \/ NothingToMerge
  \/ Assemble
  \/ WriteOutput

(***************************************************************************)
(* Runs of the whole script                                                *)
(***************************************************************************)

\* A function from a set of <<path, text>> pairs.
FileSystem(pairs) ==
  [p \in {pr[1] : pr \in pairs} |-> (CHOOSE pr \in pairs : pr[1] = p)[2]]

WorkingDirectories ==
  { FileSystem({ <<<<"a",".","t","s">>, <<"x","\n">>>>, <<<<"s","r","c","/","a",".","t","s">>, <<>>>>,
                 <<<<"s","r","c","/","b",".","t","e","s","t",".","t","s">>, <<"x","\n","y">>>>,
                 <<<<"s","r","c","/","n","o","d","e","_","m","o","d","u","l","e","s","/","p",".","t","s">>, <<"\n">>>> }),
    FileSystem({ <<<<"l","i","b","/","n","o","d","e","_","m","o","d","u","l","e","s","/","q",".","t","s">>, <<"x">>>>, <<<<"-","/","n",".","t","s">>, <<"y","\n">>>> }) }

NameOptions == { <<>>, <<<<"-","-","n","a","m","e">>, <<"c","t","x">>>> }

GitOptions == { <<>>, <<<<"-","-","g","i","t">>>> }

IncludeOptions ==
  { <<>>, <<<<"-","-","i","n","c","l","u","d","e">>, <<"*",".","t","s">>>>, <<<<"-","-","i","n","c","l","u","d","e">>, <<"*","*","/","*",".","t","s",","," ","a",".","t","s">>>> }

ExceptOptions ==
  { <<>>, <<<<"-","-","e","x","c","e","p","t">>, <<"a",".","t","s">>>>, <<<<"-","-","e","x","c","e","p","t">>, <<"*",".","t","e","s","t",".","t","s">>>> }

PathArguments ==
  { <<>>, <<<<"s","r","c">>>>, <<<<"s","r","c","/">>>>, <<<<"s","r","c","/","a",".","t","s">>>>, <<<<"s","r","c">>, <<"a",".","t","s">>>>,
    <<<<"a",".","t","s">>, <<"s","r","c","/","a",".","t","s">>, <<"s","r","c">>>>, <<<<"l","i","b">>>>, <<<<"m","i","s","s","i","n","g">>>>,
    <<<<"s","r","c","/","n","o","d","e","_","m","o","d","u","l","e","s","/","p",".","t","s">>>>, <<<<"-">>>> }

Entry(status, path, orig) == [status |-> status, path |-> path, orig |-> orig]

GitStatuses ==
  { <<>>,
    << Entry(<<" ","M">>, <<"a",".","t","s">>, <<>>), Entry(<<"D"," ">>, <<"s","r","c","/","a",".","t","s">>, <<>>),
       Entry(<<"R"," ">>, <<"s","r","c","/","b",".","t","e","s","t",".","t","s">>, <<"o","l","d",".","t","s">>),
       Entry(<<"?","?">>, <<"s","r","c","/","n","o","d","e","_","m","o","d","u","l","e","s","/","p",".","t","s">>, <<>>) >>,
    << Entry(<<"?","?">>, <<"s","r","c","/">>, <<>>), Entry(<<"A"," ">>, <<"g","o","n","e",".","t","s">>, <<>>),
       Entry(<<"?","?">>, <<"l","i","b","/","n","o","d","e","_","m","o","d","u","l","e","s","/","q",".","t","s">>, <<>>) >> }

\* The state every specification starts main() from, given its inputs.
Start(position, o) ==
  /\ pc = position
  /\ opts = o
  /\ collected = <<>>
  /\ filePaths = <<>>
  /\ entries = <<>>
  /\ blocks = <<>>
  /\ output = <<>>
  /\ exitCode = -1
  /\ outDirCreated = FALSE
  /\ outFile = NoFile

Init ==
  /\ files \in WorkingDirectories
  /\ \E n \in NameOptions, g \in GitOptions, i \in IncludeOptions,
        e \in ExceptOptions, p \in PathArguments :
        /\ argv = n \o g \o i \o e \o p
        /\ gitEntries \in (IF g = <<>> THEN {<<>>} ELSE GitStatuses)
  /\ gitOut = PorcelainText(gitEntries)
  /\ Start("start", DefaultOpts)

Spec == Init /\ [][Next]_vars

(***************************************************************************)
(* collectPaths on its own                                                 *)
(***************************************************************************)

MaxArgs == 2

CollectFiles == { <<"b",".","t","s">>, <<"s","r","c","/","a",".","t","s">>, <<"s","r","c","/","l","i","b","/","c",".","t","s">>, <<"s","r","c","-","x","/","d",".","t","s">> }

CollectArgs == { <<"s","r","c">>, <<"s","r","c","/">>, <<"s","r","c","/","a",".","t","s">>, <<"s","r","c","/","l","i","b">>, <<".">>, <<"m","i","s","s","i","n","g">> }

SeqsUpTo(S, n) == UNION {[1..k -> S] : k \in 1..n}

InitCollect ==
  /\ \E fs \in SUBSET CollectFiles : files = [f \in fs |-> <<"x">>]
  /\ argv \in SeqsUpTo(CollectArgs, MaxArgs)
  /\ gitEntries = <<>>
  /\ gitOut = <<>>
  /\ Start("parsed", parseArgs(argv))

NextCollect == Collect

SpecCollect == InitCollect /\ [][NextCollect]_vars

(***************************************************************************)
(* getGitChangedFiles on its own                                           *)
(***************************************************************************)

MaxGitLines == 3

GitEntries ==
  { Entry(st, p, <<>>) : st \in { <<" ","M">>, <<"D"," ">>, <<" ","D">>, <<"?","?">> },
                         p \in { <<"b",".","t","s">>, <<"a",".","t","s">> } }
  \cup { Entry(st, <<"a",".","t","s">>, <<"o",".","t","s">>) : st \in { <<"R"," ">>, <<"R","D">> } }

InitGit ==
  /\ files = [f \in { <<"a",".","t","s">>, <<"b",".","t","s">> } |-> <<"x">>]
  /\ gitEntries \in {<<>>} \cup SeqsUpTo(GitEntries, MaxGitLines)
  /\ gitOut = PorcelainText(gitEntries)
  /\ argv = << <<"-","-","g","i","t">> >>
  /\ Start("parsed", parseArgs(argv))

NextGit == GitChanged

SpecGit == InitGit /\ [][NextGit]_vars

(***************************************************************************)
(* The document assembler on its own                                       *)
(***************************************************************************)

MaxFiles == 2

AssemblePaths == { <<"a",".","t","s">>, <<"s","r","c","/","b">>, <<"c",".","m","d">> }

Contents == { <<>>, <<"x">>, <<"x","\n">>, <<"\n">>, <<"x","\n","y">>, <<"x","\n","\n","y","\n">> }

\* main() in --git mode, after the filter: git reports the files of `paths`
\* as modified, in that order, and each holds one of Contents.
InitAssemble ==
  /\ \E paths \in SeqsUpTo(AssemblePaths, MaxFiles) :
        /\ \A i, j \in 1..Len(paths) : paths[i] = paths[j] => i = j
        /\ files \in [Range(paths) -> Contents]
        /\ gitEntries = [i \in 1..Len(paths) |-> Entry(<<" ","M">>, paths[i], <<>>)]
  /\ gitOut = PorcelainText(gitEntries)
  /\ argv = << <<"-","-","g","i","t">> >>
  /\ pc = "filtered"
  /\ opts = parseArgs(argv)
  /\ collected = getGitChangedFiles(gitOut)
  /\ filePaths = FilterPaths(collected, opts.includeList, opts.exceptList, DOMAIN files)
  /\ entries = <<>>
  /\ blocks = <<>>
  /\ output = <<>>
  /\ exitCode = -1
  /\ outDirCreated = FALSE
  /\ outFile = NoFile

NextAssemble ==
  \/ Assemble
  \/ WriteOutput

SpecAssemble == InitAssemble /\ [][NextAssemble]_vars

(***************************************************************************)
(* Reading a written document back                                         *)
(***************************************************************************)

Written == pc = "done" /\ outFile # NoFile

DocLines == SplitOn(outFile.text, {"\n"})

RECURSIVE FromDecimal(_)
FromDecimal(ds) ==
  IF Len(ds) = 0 THEN 0
  ELSE 10 * FromDecimal(SubSeq(ds, 1, Len(ds) - 1))
       + ((CHOOSE k \in 1..10 : Digits[k] = ds[Len(ds)]) - 1)

\* The i-th index row of the document, "| path | start | end |", read back
\* from the text: line 4 + i.
IndexRow(i) ==
  LET line == DocLines[4 + i]
      cells == SplitStr(SubSeq(line, 3, Len(line) - 2), <<" ","|"," ">>)
      n == Len(cells)
  IN [path |-> Join(SubSeq(cells, 1, n - 2), <<" ","|"," ">>),
      startLine |-> FromDecimal(cells[n - 1]),
      endLine |-> FromDecimal(cells[n])]

\* The literal text of lines a..b of the document.
LinesText(a, b) == Join(SubSeq(DocLines, a, b), <<"\n">>)

TextOf(relPath) == files[Normalize(relPath)]

NewlineCount(text) == Cardinality({i \in 1..Len(text) : text[i] = "\n"})

\* relPath has a default-excluded name as one of its segments.
HasExcludedSegment(relPath) ==
  \E a, b \in 1..Len(relPath) :
     /\ a <= b
     /\ SubSeq(relPath, a, b) \in DEFAULT_EXCLUDE_SEGMENTS
     /\ (a = 1 \/ relPath[a - 1] \in {"/", "\\"})
     /\ (b = Len(relPath) \/ relPath[b + 1] \in {"/", "\\"})

Filtered == pc \in {"filtered", "assembled"} \/ (pc = "done" /\ exitCode = 0)

(***************************************************************************)
(* The claims                                                              *)
(***************************************************************************)

\* C1: in every document written, the text of lines startLine..endLine of
\* each index row, as read back from the document, is that file's rendered
\* fenced block (the opening fence line with the language tag, if any, and
\* the path; the content; the closing fence line and the newline that ends
\* it), and the first block starts at line 4 + N + 1 + 1.
C1_LineRangeRoundTrip ==
  Written =>
    LET n == Len(filePaths)
    IN /\ IndexRow(1).startLine = 4 + n + 1 + 1
       /\ \A i \in 1..n :
            LET row == IndexRow(i)
                lang == EXT_TO_LANG(ExtName(filePaths[i]))
                tag == IF Len(lang) > 0 THEN lang \o <<" ">> ELSE <<>>
            IN /\ row.path = filePaths[i]
               /\ 1 <= row.startLine
               /\ row.startLine <= row.endLine
               /\ row.endLine <= Len(DocLines)
               /\ LinesText(row.startLine, row.endLine)
                    = Fence \o tag \o filePaths[i] \o <<"\n">>
                      \o TextOf(filePaths[i]) \o <<"\n">> \o Fence \o <<"\n">>

\* C1 witness: a written document of two files, one empty and one whose
\* text ends with a newline.
C1_Witness ==
  /\ Written
  /\ Len(filePaths) = 2
  /\ TextOf(filePaths[1]) = <<>>
  /\ TextOf(filePaths[2]) = <<"x","\n","\n","y","\n">>

\* C2 as stated: the endLine of every index row is the line of the block's
\* closing fence, and the next row starts at endLine + 2.
C2_EndLineIsClosingFence ==
  Written =>
    \A i \in 1..Len(filePaths) :
       /\ DocLines[IndexRow(i).endLine] = Fence
       /\ i < Len(filePaths) => IndexRow(i + 1).startLine = IndexRow(i).endLine + 2

\* C2 amended: the endLine of every index row is the line after the block's
\* closing fence, an empty line; the closing fence is line endLine - 1, and
\* the next row starts at endLine + 1.
C2_EndLineIsLineAfterFence ==
  Written =>
    \A i \in 1..Len(filePaths) :
       LET row == IndexRow(i)
       IN /\ row.endLine - 1 = row.startLine + NewlineCount(TextOf(filePaths[i])) + 2
          /\ DocLines[row.endLine - 1] = Fence
          /\ DocLines[row.endLine] = <<>>
          /\ i < Len(filePaths) => IndexRow(i + 1).startLine = row.endLine + 1

\* C2 witness: a written document of two files, the first of several lines.
C2_Witness ==
  /\ Written
  /\ Len(filePaths) = 2
  /\ NewlineCount(TextOf(filePaths[1])) >= 1
  /\ IndexRow(2).startLine = IndexRow(1).endLine + 1

C4_FilterComposition ==
  Filtered =>
    LET inc == opts.includeList
        exc == opts.exceptList
        keep(rel) ==
          /\ ~HasExcludedSegment(rel)
          /\ (Len(inc) = 0 \/ \E k \in 1..Len(inc) : matchesGlob(rel, inc[k]))
          /\ ~\E k \in 1..Len(exc) : matchesGlob(rel, exc[k])
          /\ Normalize(rel) \in DOMAIN files
    IN /\ filePaths = SelectSeq(collected, keep)
       /\ (inc = << <<"*",".","t","s">> >> /\ exc = << <<"a",".","t","s">> >>) => <<"a",".","t","s">> \notin Range(filePaths)

\* C4 witness: --include "*.ts" --except "a.ts" with the file a.ts among the
\* candidates.
C4_Witness ==
  /\ pc = "filtered"
  /\ opts.includeList = << <<"*",".","t","s">> >>
  /\ opts.exceptList = << <<"a",".","t","s">> >>
  /\ <<"a",".","t","s">> \in Range(collected)
  /\ <<"a",".","t","s">> \in DOMAIN files
  /\ Len(collected) > 1

\* C5 as stated: an except pattern "*" + ending removes every collected file
\* whose name has that ending, at any depth.
C5_StarMatchesAtAnyDepth ==
  Filtered =>
    \A k \in 1..Len(opts.exceptList) :
       LET pat == opts.exceptList[k]
       IN (Len(pat) > 1 /\ pat[1] = "*" /\ "*" \notin Range(Tail(pat))
           /\ "/" \notin Range(pat))
          => \A i \in 1..Len(filePaths) : ~EndsWith(filePaths[i], Tail(pat))

\* C6: collectPaths returns the relative path of each regular file reachable
\* from the arguments exactly once, in ascending order.
C6_CollectedOnceAndSorted ==
  (pc = "collected" /\ ~opts.useGit) =>
    LET reachable ==
          {f \in DOMAIN files :
             \E k \in 1..Len(opts.pathArgs) :
                LET a == Normalize(opts.pathArgs[k])
                IN a = f \/ Len(a) = 0 \/ StartsWith(f, a \o <<"/">>)}
    IN /\ Range(collected) = reachable
       /\ Len(collected) = Cardinality(reachable)
       /\ \A i, j \in 1..Len(collected) :
            i < j => /\ collected[i] # collected[j]
                     /\ ~StrLess(collected[j], collected[i])

\* C6 witness: ["src", "src/a.ts"] with src/a.ts and another file under src.
C6_Witness ==
  /\ pc = "collected"
  /\ opts.pathArgs = << <<"s","r","c">>, <<"s","r","c","/","a",".","t","s">> >>
  /\ collected = << <<"s","r","c","/","a",".","t","s">>, <<"s","r","c","/","l","i","b","/","c",".","t","s">> >>

C8_GitChangedFiles ==
  (pc = "collected" /\ opts.useGit) =>
    LET kept == SelectSeq(gitEntries, LAMBDA e : "D" \notin Range(e.status))
    IN collected = [i \in 1..Len(kept) |-> kept[i].path]

\* C8 witness: a modified file, a deleted one and a rename, not in ascending
\* order.
C8_Witness ==
  /\ pc = "collected"
  /\ opts.useGit
  /\ collected = << <<"b",".","t","s">>, <<"a",".","t","s">> >>
  /\ \E i \in 1..Len(gitEntries) : gitEntries[i].status = <<" ","D">>
  /\ \E i \in 1..Len(gitEntries) :
        gitEntries[i].status = <<"R"," ">> /\ gitEntries[i].orig = <<"o",".","t","s">>

\* C9: when the list is empty after filtering, the run ends with exit code 0
\* and neither the output directory nor the output file is created; a file
\* is written only when the filtered list is not empty.
C9_NothingWrittenWhenEmpty ==
  /\ (Filtered /\ Len(filePaths) = 0) => (~outDirCreated /\ outFile = NoFile)
  /\ (pc = "done" /\ Len(filePaths) = 0 /\ (opts.useGit \/ Len(opts.pathArgs) > 0))
       => exitCode = 0
  /\ (outDirCreated \/ outFile # NoFile) => Len(filePaths) > 0

\* C9 witness: every collected file sits under a default-excluded segment,
\* and the run has ended.
C9_Witness ==
  /\ pc = "done"
  /\ exitCode = 0
  /\ Len(collected) > 0
  /\ \A i \in 1..Len(collected) : HasExcludedSegment(collected[i])
  /\ Len(filePaths) = 0
  /\ outFile = NoFile

\* C10 as stated: with a single file argument and no --name, the file
\* written is named after the path with "/" replaced by "-" and the file
\* extension removed.
C10_SingleFileNameDropsExtension ==
  (/\ Written
   /\ Len(opts.outName) = 0
   /\ ~opts.useGit
   /\ Len(opts.pathArgs) = 1
   /\ opts.pathArgs[1] \in DOMAIN files)
  => LET arg == opts.pathArgs[1]
         stem == SubSeq(arg, 1, Len(arg) - Len(ExtName(arg)))
     IN outFile.name = TrimHyphens(SlashesToHyphens(stem)) \o <<".","m","d">>

====
